---- MODULE Spec2Model ----
(***************************************************************************)
(* The local MCP relay of the Emotos skill (class EmotosMCPProxy).         *)
(*                                                                         *)
(* The relay runs on one event-loop thread, so every handler is one atomic *)
(* step up to its first suspension point.  forward() suspends once, on the *)
(* promise it returns; the continuation of the local message handler       *)
(* (ws.send + logEvent) runs as a microtask of the step that settles that  *)
(* promise and is therefore part of that step.                             *)
(*                                                                         *)
(* Time is kept as the remaining delay of every pending timer.  A timer    *)
(* callback runs when its remaining delay is 0, and time does not advance  *)
(* past a due timer.  Time advances from one deadline to the next, so the  *)
(* events of the environment happen at those instants.                     *)
(*                                                                         *)
(* Environment: the upstream server sends JSON objects; local clients stay *)
(* connected.                                                              *)
(*                                                                         *)
(* Specifications:                                                         *)
(*   Spec, LiveSpec  the relay with an upstream connection that fails and  *)
(*                   is re-established, within the validity of the token   *)
(*                   issued at start (the clock of the credential is not   *)
(*                   advanced) and with the config file left alone;        *)
(*   CredSpec        the relay over the lifetime of its credentials: the   *)
(*                   refresh timer, the token endpoint answering or        *)
(*                   failing, tokens expiring;                             *)
(*   AuditSpec       the relay while the config file is rewritten;         *)
(*   ConfigSpec      the config store (writeConfig, readConfig);           *)
(*   RenewSpec       the credential alone while the config file is         *)
(*                   rewritten;                                            *)
(*   CliSpec         the command-line client and its own store.            *)
(***************************************************************************)
EXTENDS Integers, Sequences, FiniteSets, TLC

VARIABLES
    phase,      \* "new", "starting", "running", "exited" (exit status 1), "crashed"
    config,     \* what readConfig() gives the relay, one of ConfigStates
    token,      \* this.token: "none" or "issued"
    socks,      \* the WebSocket objects created by connectUpstream that still exist
                \* (readyState of each); this.upstream is the last one, null if empty
    reconnect,  \* remaining delays of the pending setTimeout(connectUpstream) timers
    pending,    \* this.pending: identifier -> the call whose callback is stored
    calls,      \* one record per local frame being handled (or last handled) in a slot
    lastEvent,  \* eventType of the last connection-level logEvent call
    lastMsg,    \* the upstream message whose handler ran in the last step, if any
    listen,     \* the address and port the local WebSocket.Server is bound to
    tokenExpiresIn, \* this.tokenExpiresAt - Date.now(), 0 when that is not positive
    upstreamAuth,   \* the same for the token in the Authorization header of this.upstream
    refreshTimers,  \* remaining delays of the pending setTimeout(refreshToken) timers
    refreshTimeout, \* this.refreshTimeout: "null", or the handle of the timer created
                    \* last, which is "pending" (the last of refreshTimers) or "fired"
    refreshing,     \* number of timer-started refreshToken() calls awaiting issueToken
    lastRefresh,    \* how the last refreshToken() call ended: "none", "ok", "failed"
    cfgFile,    \* the text of the config file, NoFile when it does not exist
    cfgRead,    \* what readConfig() returned when last called since the file was
                \* written (NoRead if not called, Thrown if it threw)
    cfgWritten, \* the argument of the last writeConfig() call, NoDoc if none
    cliFile,    \* the store of the command-line client (its own config file)
    cliProc,    \* the command-line invocation under way and how far it has got
    cliUrl,     \* what getApiUrl() returned when last called
    cliRemote   \* number of requests the invocation has sent to the API

relayVars == <<phase, config, token, socks, reconnect, pending, calls, lastEvent, lastMsg>>
credVars ==
    <<tokenExpiresIn, upstreamAuth, refreshTimers, refreshTimeout, refreshing, lastRefresh>>
storeVars == <<cfgFile, cfgRead, cfgWritten>>
cliVars == <<cliFile, cliProc, cliUrl, cliRemote>>

vars == <<relayVars, listen, credVars, storeVars, cliVars>>

-----------------------------------------------------------------------------
(* Bounds of the model *)

\* number of local frames that can be in the handler at the same time
MaxCalls == 2

(* Program constants *)

LOCAL_PORT == 8765
REFRESH_BUFFER_MS == 60000
TIMEOUT_MS == 30000
RECONNECT_DELAY_MS == 2000
\* issueToken asks for ttlSeconds = 3600
DEFAULT_TTL_MS == 3600000
PARSE_ERROR_CODE == -32600
INTERNAL_ERROR_CODE == -32603

-----------------------------------------------------------------------------
(* Data *)

Slots == 1 .. MaxCalls

\* local client connections accepted by the WebSocket.Server
Clients == {"ws1", "ws2"}

\* what JSON.parse(raw) gives for a local frame:
\*   "text"   not JSON (JSON.parse throws)
\*   "null"   the JSON value null
\*   "prim"   a JSON number, string or boolean
\*   "array"  a JSON array
\*   "object" a JSON object (the expected request shape)
Kinds == {"text", "null", "prim", "array", "object"}

\* identifiers: 0 is "no id" (absent or null), positive ones are chosen by the
\* callers, a negative one is the crypto.randomUUID() drawn for the call of that slot
NoId == 0
Ids == {1}
UuidOf(c) == 0 - c

\* what readConfig() gives the relay:
\*   "ok"         an object with agentId and orgApiKey
\*   "noAgentId"  an object without agentId
\*   "noApiKey"   an object without orgApiKey
\*   "absent"     the file does not exist: {}
\*   "corrupt"    the file is not JSON: JSON.parse throws
ConfigStates == {"ok", "noAgentId", "noApiKey", "absent", "corrupt"}

\* mutant: only agentId is required
ConfiguredAgentOnly(cfg) == cfg \in {"ok", "noApiKey"}

\* refreshToken's check, !(!config.agentId || !config.orgApiKey), reached only
\* when readConfig() returned
Configured(cfg) == cfg = "ok"

\* logEvent(): readConfig() throws on a file that is not JSON, and nothing in
\* logEvent catches it
LogThrows == config = "corrupt"

\* logEvent() returns without a POST unless orgApiKey and agentId are set; the
\* POST is not awaited and its rejection is swallowed, so whether it succeeds
\* changes nothing in the relay
LogPosts == config = "ok"

\* the audit events of a list of logEvent calls that reach the POST
Audited(as) == IF LogPosts THEN as ELSE <<>>

\* how an event listener that calls logEvent leaves the process: an exception
\* thrown in a listener is uncaught and ends the process
AfterListener(p) == IF LogThrows THEN "crashed" ELSE p

\* bodies of upstream messages
Bodies == {"result", "error"}

NoTimer == -1

NoMsg == [id |-> NoId, body |-> "none"]

\* no message sent upstream
NoRequest == [kind |-> "none", id |-> NoId]

FreeCall ==
    [st |-> "free", ws |-> "ws1", kind |-> "text", rid |-> NoId, id |-> NoId,
     timer |-> NoTimer, sent |-> 0, settles |-> 0, outcome |-> "none",
     result |-> NoMsg, resp |-> <<>>, audits |-> <<>>, stale |-> FALSE,
     up |-> NoRequest]

Range(f) == {f[x] : x \in DOMAIN f}

Min(S) == CHOOSE x \in S : \A y \in S : x <= y

\* Map.delete(k)
MapDelete(m, k) == [x \in (DOMAIN m) \ {k} |-> m[x]]

\* mutant: the entry is not in the map when the request is sent
MapSetLater(m, k, v) == m

\* Map.set(k, v)
MapSet(m, k, v) == [x \in (DOMAIN m) \cup {k} |-> IF x = k THEN v ELSE m[x]]

\* the local server before start() has created it
NotListening == [host |-> "none", port |-> 0]

\* new WebSocket.Server({ port: LOCAL_PORT }): no host option is given, so the
\* underlying server.listen(port) binds the unspecified address (all interfaces)
ServerAddress == [host |-> "unspecified", port |-> LOCAL_PORT]

\* the config file does not exist
NoFile == <<"absent">>

\* this.upstream && this.upstream.readyState === WebSocket.OPEN
UpstreamOpen == Len(socks) > 0 /\ socks[Len(socks)] = "OPEN"

-----------------------------------------------------------------------------
(* The config store: JSON documents, JSON.stringify(config, null, 2) and     *)
(* JSON.parse.  A text is a sequence of characters.                          *)

JNull == [t |-> "null"]
JBool(b) == [t |-> "bool", b |-> b]
\* a number: sign and magnitude, so that -0 and 0 are two values
JNum(neg, mag) == [t |-> "num", neg |-> neg, mag |-> mag]
JStr(cs) == [t |-> "str", cs |-> cs]
JArr(es) == [t |-> "arr", es |-> es]
\* an object: its members in property order, keys distinct
JObj(ms) == [t |-> "obj", ms |-> ms]
Member(k, v) == [k |-> k, v |-> v]

\* readConfig() has not been called since the file was last written / threw
NoRead == [t |-> "unread"]
Thrown == [t |-> "throws"]
\* writeConfig() has not been called
NoDoc == [t |-> "none"]

Quote == "\""
Backslash == "\\"
Newline == "\n"

DigitChars == <<"0", "1", "2", "3", "4", "5", "6", "7", "8", "9">>

RECURSIVE Digits(_)
Digits(n) ==
    IF n < 10 THEN <<DigitChars[n + 1]>>
    ELSE Digits(n \div 10) \o <<DigitChars[(n % 10) + 1]>>

\* mutant: string characters are written as they are
EscapeNothing(cs) == cs

\* JSON.stringify of the characters of a string
RECURSIVE Escape(_)
Escape(cs) ==
    IF cs = <<>> THEN <<>>
    ELSE (CASE Head(cs) = Quote -> <<Backslash, Quote>>
            [] Head(cs) = Backslash -> <<Backslash, Backslash>>
            [] Head(cs) = Newline -> <<Backslash, "n">>
            [] OTHER -> <<Head(cs)>>) \o Escape(Tail(cs))

Quoted(cs) == <<Quote>> \o Escape(cs) \o <<Quote>>

\* the line break and indentation JSON.stringify(_, null, 2) writes at depth d
Indent(d) == <<Newline>> \o [i \in 1 .. (2 * d) |-> " "]

RECURSIVE Stringify(_, _), StringifyElems(_, _), StringifyMembers(_, _)

\* JSON.stringify(v, null, 2) of a value that sits at depth d
Stringify(v, d) ==
    CASE v.t = "null" -> <<"n", "u", "l", "l">>
      [] v.t = "bool" -> IF v.b THEN <<"t", "r", "u", "e">> ELSE <<"f", "a", "l", "s", "e">>
      [] v.t = "num" -> IF v.mag = 0 THEN <<"0">>
                        ELSE (IF v.neg THEN <<"-">> ELSE <<>>) \o Digits(v.mag)
      [] v.t = "str" -> Quoted(v.cs)
      [] v.t = "arr" -> IF v.es = <<>> THEN <<"[", "]">>
                        ELSE <<"[">> \o StringifyElems(v.es, d + 1) \o Indent(d) \o <<"]">>
      [] v.t = "obj" -> IF v.ms = <<>> THEN <<"{", "}">>
                        ELSE <<"{">> \o StringifyMembers(v.ms, d + 1) \o Indent(d) \o <<"}">>

StringifyElems(es, d) ==
    Indent(d) \o Stringify(Head(es), d)
        \o (IF Len(es) = 1 THEN <<>> ELSE <<",">> \o StringifyElems(Tail(es), d))

StringifyMembers(ms, d) ==
    Indent(d) \o Quoted(Head(ms).k) \o <<":", " ">> \o Stringify(Head(ms).v, d)
        \o (IF Len(ms) = 1 THEN <<>> ELSE <<",">> \o StringifyMembers(Tail(ms), d))

\* JSON.parse: the result of reading one value off the front of a text
PFail == [ok |-> FALSE, v |-> JNull, rest |-> <<>>]
POk(v, rest) == [ok |-> TRUE, v |-> v, rest |-> rest]

IsDigit(c) == c \in Range(DigitChars)
DigitValue(c) == CHOOSE n \in 0 .. 9 : DigitChars[n + 1] = c
StartsWith(s, p) == Len(s) >= Len(p) /\ SubSeq(s, 1, Len(p)) = p
Drop(s, n) == SubSeq(s, n + 1, Len(s))

RECURSIVE SkipWs(_)
SkipWs(s) == IF s # <<>> /\ Head(s) \in {" ", Newline} THEN SkipWs(Tail(s)) ELSE s

RECURSIVE ParseDigits(_, _)
ParseDigits(s, acc) ==
    IF s # <<>> /\ IsDigit(Head(s))
    THEN ParseDigits(Tail(s), (acc * 10) + DigitValue(Head(s)))
    ELSE [mag |-> acc, rest |-> s]

\* an integer: 0, or a nonzero digit followed by digits ("-0" gives -0)
ParseNumber(s, neg) ==
    IF s = <<>> \/ ~IsDigit(Head(s)) THEN PFail
    ELSE IF Head(s) = "0" THEN POk(JNum(neg, 0), Tail(s))
    ELSE LET r == ParseDigits(s, 0) IN POk(JNum(neg, r.mag), r.rest)

\* the characters of a string after its opening quote; of the escapes the
\* ones JSON.stringify writes for the characters of the model are read
RECURSIVE ParseChars(_, _)
ParseChars(s, acc) ==
    IF s = <<>> THEN PFail
    ELSE IF Head(s) = Quote THEN POk(JStr(acc), Tail(s))
    ELSE IF Head(s) = Newline THEN PFail
    ELSE IF Head(s) = Backslash
    THEN IF Len(s) < 2 THEN PFail
         ELSE IF s[2] \in {Quote, Backslash} THEN ParseChars(Drop(s, 2), Append(acc, s[2]))
         ELSE IF s[2] = "n" THEN ParseChars(Drop(s, 2), Append(acc, Newline))
         ELSE PFail
    ELSE ParseChars(Tail(s), Append(acc, Head(s)))

\* a repeated key keeps its place and takes the later value
AddMember(ms, k, v) ==
    IF \E i \in DOMAIN ms : ms[i].k = k
    THEN [i \in DOMAIN ms |-> IF ms[i].k = k THEN Member(k, v) ELSE ms[i]]
    ELSE Append(ms, Member(k, v))

RECURSIVE ParseValue(_), ParseElems(_, _), ParseMembers(_, _)

ParseValue(s0) ==
    LET s == SkipWs(s0) IN
    IF s = <<>> THEN PFail
    ELSE IF StartsWith(s, <<"n", "u", "l", "l">>) THEN POk(JNull, Drop(s, 4))
    ELSE IF StartsWith(s, <<"t", "r", "u", "e">>) THEN POk(JBool(TRUE), Drop(s, 4))
    ELSE IF StartsWith(s, <<"f", "a", "l", "s", "e">>) THEN POk(JBool(FALSE), Drop(s, 5))
    ELSE IF Head(s) = Quote THEN ParseChars(Tail(s), <<>>)
    ELSE IF Head(s) = "-" THEN ParseNumber(Tail(s), TRUE)
    ELSE IF IsDigit(Head(s)) THEN ParseNumber(s, FALSE)
    ELSE IF Head(s) = "["
    THEN LET t == SkipWs(Tail(s)) IN
         IF t # <<>> /\ Head(t) = "]" THEN POk(JArr(<<>>), Tail(t)) ELSE ParseElems(t, <<>>)
    ELSE IF Head(s) = "{"
    THEN LET t == SkipWs(Tail(s)) IN
         IF t # <<>> /\ Head(t) = "}" THEN POk(JObj(<<>>), Tail(t)) ELSE ParseMembers(t, <<>>)
    ELSE PFail

ParseElems(s, acc) ==
    LET r == ParseValue(s) IN
    IF ~r.ok THEN PFail
    ELSE LET t == SkipWs(r.rest) IN
         IF t = <<>> THEN PFail
         ELSE IF Head(t) = "," THEN ParseElems(Tail(t), Append(acc, r.v))
         ELSE IF Head(t) = "]" THEN POk(JArr(Append(acc, r.v)), Tail(t))
         ELSE PFail

ParseMembers(s0, acc) ==
    LET s == SkipWs(s0) IN
    IF s = <<>> \/ Head(s) # Quote THEN PFail
    ELSE LET k == ParseChars(Tail(s), <<>>) IN
         IF ~k.ok THEN PFail
         ELSE LET t == SkipWs(k.rest) IN
              IF t = <<>> \/ Head(t) # ":" THEN PFail
              ELSE LET r == ParseValue(Tail(t)) IN
                   IF ~r.ok THEN PFail
                   ELSE LET u == SkipWs(r.rest)
                            ms == AddMember(acc, k.v.cs, r.v) IN
                        IF u = <<>> THEN PFail
                        ELSE IF Head(u) = "," THEN ParseMembers(Tail(u), ms)
                        ELSE IF Head(u) = "}" THEN POk(JObj(ms), Tail(u))
                        ELSE PFail

\* JSON.parse(text): the value, or Thrown for a SyntaxError
JsonParse(text) ==
    LET r == ParseValue(text) IN
    IF r.ok /\ SkipWs(r.rest) = <<>> THEN r.v ELSE Thrown

\* readConfig(): {} when the file does not exist, else JSON.parse of its text
ReadConfigOf(file) == IF file = NoFile THEN JObj(<<>>) ELSE JsonParse(file)

\* writeConfig(config): the text the file holds afterwards
WriteConfigOf(doc) == Stringify(doc, 0)

\* deep equality of two documents: same structure, members of an object in any
\* order, numbers compared as === does (0 and -0 are equal)
RECURSIVE DeepEqual(_, _)
DeepEqual(a, b) ==
    IF a.t # b.t THEN FALSE
    ELSE CASE a.t = "num" -> a.mag = b.mag /\ (a.neg = b.neg \/ a.mag = 0)
           [] a.t = "arr" -> /\ Len(a.es) = Len(b.es)
                             /\ \A i \in DOMAIN a.es : DeepEqual(a.es[i], b.es[i])
           [] a.t = "obj" -> /\ Len(a.ms) = Len(b.ms)
                             /\ \A i \in DOMAIN a.ms : \E j \in DOMAIN b.ms :
                                   a.ms[i].k = b.ms[j].k /\ DeepEqual(a.ms[i].v, b.ms[j].v)
           [] OTHER -> a = b

AgentIdKey == <<"a", "g", "e", "n", "t", "I", "d">>
OrgApiKeyKey == <<"o", "r", "g", "A", "p", "i", "K", "e", "y">>
OddKey == <<"k", Quote, " ">>

\* the documents written in the model
StrSamples == {<<>>, <<"a">>, <<Quote>>, <<Backslash, "n">>, <<Newline>>, <<" ", "a">>}
Atoms ==
    {JNull, JBool(TRUE), JBool(FALSE),
     JNum(FALSE, 0), JNum(TRUE, 0), JNum(FALSE, 7), JNum(TRUE, 120)}
        \cup {JStr(cs) : cs \in StrSamples}
Nested ==
    {JArr(<<>>), JObj(<<>>)}
        \cup {JArr(<<a, JNull>>) : a \in Atoms}
        \cup {JObj(<<Member(OddKey, JArr(<<a>>))>>) : a \in Atoms}
CredValues == {JStr(<<"a">>), JStr(<<>>), JNull, JNum(FALSE, 7)}
Docs ==
    {JObj(<<>>)}
        \cup {JObj(<<Member(k, x)>>) :
                k \in {AgentIdKey, OrgApiKeyKey, OddKey}, x \in Atoms \cup Nested}
        \cup {JObj(<<Member(OrgApiKeyKey, a), Member(AgentIdKey, b)>>) :
                a \in CredValues, b \in CredValues}

\* !value of JavaScript
Falsy(v) ==
    \/ v.t = "null"
    \/ v.t = "bool" /\ ~v.b
    \/ v.t = "num" /\ v.mag = 0
    \/ v.t = "str" /\ v.cs = <<>>

\* !config[k]
Lacks(doc, k) == \A i \in DOMAIN doc.ms : doc.ms[i].k = k => Falsy(doc.ms[i].v)

\* what a config file holding doc gives the relay
Classify(doc) ==
    IF Lacks(doc, AgentIdKey) THEN "noAgentId"
    ELSE IF Lacks(doc, OrgApiKeyKey) THEN "noApiKey"
    ELSE "ok"

\* a config file for each of ConfigStates
FileOf(c) ==
    CASE c = "ok" -> WriteConfigOf(JObj(<<Member(OrgApiKeyKey, JStr(<<"a">>)),
                                          Member(AgentIdKey, JStr(<<"a">>))>>))
      [] c = "noAgentId" -> WriteConfigOf(JObj(<<Member(OrgApiKeyKey, JStr(<<"a">>))>>))
      [] c = "noApiKey" -> WriteConfigOf(JObj(<<Member(AgentIdKey, JStr(<<"a">>))>>))
      [] c = "absent" -> NoFile
      [] c = "corrupt" -> <<"{">>

-----------------------------------------------------------------------------
(* The command-line client (agentspd).  Its store is a Conf instance over a *)
(* file of its own; of the store the model keeps apiUrl and the two        *)
(* credentials.  A key that the store does not hold is Unset; a file that  *)
(* does not exist reads as the empty store.                                *)
Unset == "unset"
DEFAULT_API_URL == "https://emotos.ai"
Urls == {DEFAULT_API_URL, "https://a.example", "https://b.example"}
EmptyStore == [apiUrl |-> Unset, apiKey |-> Unset, sessionToken |-> Unset]
Commands == {"request", "configSet", "reset", "loginKey", "loginPassword", "logout"}
Outcomes == {"ok", "httpError", "networkError"}
NoProc ==
    [at |-> "none", cmd |-> "none", env |-> Unset, opt |-> Unset, stored |-> Unset,
     outcome |-> "none"]

\* the invocation has ended (what it was stays on record)
Finished(proc) == [proc EXCEPT !.at = "none"]

\* defaults.apiUrl: process.env.EMOTOS_API_URL || "https://emotos.ai"
DefaultApiUrl(env) == IF env = Unset THEN DEFAULT_API_URL ELSE env

\* new Conf({defaults}): the defaults are laid under what the file holds, and
\* the result is written back when it differs from the file
ConfLoad(store, env) ==
    IF store.apiUrl = Unset THEN [store EXCEPT !.apiUrl = DefaultApiUrl(env)] ELSE store

\* setConfig(key, value): config.set, or config.delete for undefined and null
SetConfig(store, key, value) == [store EXCEPT ![key] = value]

\* clearConfig(): config.clear() empties the store and resets the defaults
ClearConfig(env) == [EmptyStore EXCEPT !.apiUrl = DefaultApiUrl(env)]

\* getApiUrl(): config.get("apiUrl")
GetApiUrl(store) == store.apiUrl

\* isAuthenticated()
IsAuthenticated(store) == store.apiKey # Unset \/ store.sessionToken # Unset

\* getAuthHeader(): the API key first, then the session token, else {}
GetAuthHeader(store) ==
    IF store.apiKey # Unset THEN <<"Bearer", store.apiKey>>
    ELSE IF store.sessionToken # Unset THEN <<"Bearer", store.sessionToken>>
    ELSE <<>>

Init ==
    /\ phase = "new"
    /\ config \in ConfigStates
    /\ token = "none"
    /\ socks = <<>>
    /\ reconnect = <<>>
    /\ pending = <<>>
    /\ calls = [c \in Slots |-> FreeCall]
    /\ lastEvent = "none"
    /\ lastMsg = NoMsg
    /\ listen = NotListening
    /\ tokenExpiresIn = 0
    /\ upstreamAuth = 0
    /\ refreshTimers = <<>>
    /\ refreshTimeout = "null"
    /\ refreshing = 0
    /\ lastRefresh = "none"
    /\ cfgFile = FileOf(config)
    /\ cfgRead = NoRead
    /\ cfgWritten = NoDoc
    /\ cliFile = EmptyStore
    /\ cliProc = NoProc
    /\ cliUrl = Unset
    /\ cliRemote = 0

-----------------------------------------------------------------------------
(* connectUpstream(): a new socket in CONNECTING replaces this.upstream.    *)
(* Sockets that are CLOSED and no longer referenced are garbage.            *)
ConnectUpstream(ss) ==
    Append(SelectSeq(ss, LAMBDA s : s # "CLOSED"), "CONNECTING")

\* mutant: the delay is passed to setTimeout as computed
RefreshDelayUnclamped(expiresIn) == expiresIn - REFRESH_BUFFER_MS

\* setTimeout(() => this.refreshToken(), delay > 0 ? delay : 0) with
\* delay = this.tokenExpiresAt - Date.now() - REFRESH_BUFFER_MS
RefreshDelay(expiresIn) ==
    LET delay == expiresIn - REFRESH_BUFFER_MS IN IF delay > 0 THEN delay ELSE 0

\* if (this.refreshTimeout) clearTimeout(this.refreshTimeout): clearing the
\* handle of a timer that has fired does nothing
ClearRefresh(ts, h) == IF h = "pending" THEN SubSeq(ts, 1, Len(ts) - 1) ELSE ts

\* refreshToken() after issueToken resolved with a token that expires in ttl:
\* the token and its expiry are stored and the next refresh is scheduled
TokenStored(ttl) ==
    /\ token' = "issued"
    /\ tokenExpiresIn' = ttl
    /\ refreshTimers' = Append(ClearRefresh(refreshTimers, refreshTimeout), RefreshDelay(ttl))
    /\ refreshTimeout' = "pending"
    /\ lastRefresh' = "ok"

\* start(), up to the await: refreshToken() reads the config and either throws
\* (start rejects, the start script exits with status 1) or requests a token
StartBegin ==
    /\ phase = "new"
    /\ phase' = IF Configured(config) THEN "starting" ELSE "exited"
    /\ UNCHANGED <<config, token, socks, reconnect, pending, calls, lastEvent>>
    /\ lastMsg' = NoMsg
    /\ UNCHANGED <<credVars, listen, storeVars, cliVars>>

\* issueToken resolved: the token is stored, start() continues with
\* connectUpstream(), opens the local server and logs proxy.started
StartIssued(ttl) ==
    /\ phase = "starting"
    /\ TokenStored(ttl)
    /\ socks' = ConnectUpstream(socks)
    /\ upstreamAuth' = ttl
    /\ listen' = ServerAddress
    /\ phase' = "running"
    /\ lastEvent' = "proxy.started"
    /\ UNCHANGED <<config, reconnect, pending, calls, refreshing>>
    /\ lastMsg' = NoMsg
    /\ UNCHANGED <<storeVars, cliVars>>

\* issueToken rejected: start() rejects, the start script exits with status 1
StartIssueFailed ==
    /\ phase = "starting"
    /\ phase' = "exited"
    /\ UNCHANGED <<config, token, socks, reconnect, pending, calls, lastEvent>>
    /\ lastMsg' = NoMsg
    /\ UNCHANGED <<credVars, listen, storeVars, cliVars>>

-----------------------------------------------------------------------------
(* The record of a finished handler stays in its slot for one step, as the   *)
(* output of that step.  Once nothing references its closure any more (no    *)
(* entry of the pending map, no running timer) it can never act again, and   *)
(* the slot is free for the next frame.                                      *)
Reusable(c) ==
    \/ calls[c].st = "free"
    \/ /\ calls[c].st = "done"
       /\ calls[c].timer = NoTimer
       /\ c \notin Range(pending)

Live == [c \in Slots |-> IF Reusable(c) THEN FreeCall ELSE calls[c]]

-----------------------------------------------------------------------------
(* Upstream socket events (handlers installed by connectUpstream) *)

\* 'open': the handshake succeeded; the handler logs proxy.connected
SockOpen(i) ==
    /\ phase = "running"
    /\ socks[i] = "CONNECTING"
    /\ socks' = [socks EXCEPT ![i] = "OPEN"]
    /\ lastEvent' = "proxy.connected"
    /\ phase' = AfterListener(phase)
    /\ UNCHANGED <<config, token, reconnect, pending>>
    /\ lastMsg' = NoMsg
    /\ UNCHANGED <<credVars, listen, storeVars, cliVars>>
    /\ calls' = Live

\* the connection the requests in flight were sent on is lost: they stay in
\* the pending map, marked here as stale (the relay itself keeps no such mark)
Stale(cs) ==
    [c \in Slots |-> IF cs[c].st = "inflight" THEN [cs[c] EXCEPT !.stale = TRUE] ELSE cs[c]]

\* mutant: the 'error' handler schedules a reconnect as well
ErrorHandlerReconnects(rc) == Append(rc, RECONNECT_DELAY_MS)

\* the timers the 'error' handler leaves pending: it sets none
ErrorHandlerTimers(rc) == rc

\* 'error': a failed handshake or a broken connection; the socket starts
\* closing, the handler only logs proxy.error
SockError(i) ==
    /\ phase = "running"
    /\ socks[i] \in {"CONNECTING", "OPEN"}
    /\ socks' = [socks EXCEPT ![i] = "CLOSING"]
    /\ lastEvent' = "proxy.error"
    /\ reconnect' = ErrorHandlerTimers(reconnect)
    /\ phase' = AfterListener(phase)
    /\ UNCHANGED <<config, token, pending>>
    /\ lastMsg' = NoMsg
    /\ UNCHANGED <<credVars, listen, storeVars, cliVars>>
    /\ calls' = IF socks[i] = "OPEN" THEN Stale(Live) ELSE Live

\* the server starts the closing handshake; no handler of the relay runs
SockPeerClose(i) ==
    /\ phase = "running"
    /\ socks[i] = "OPEN"
    /\ socks' = [socks EXCEPT ![i] = "CLOSING"]
    /\ UNCHANGED <<phase, config, token, reconnect, pending, lastEvent>>
    /\ lastMsg' = NoMsg
    /\ UNCHANGED <<credVars, listen, storeVars, cliVars>>
    /\ calls' = Stale(Live)

\* mutant: the 'close' handler schedules nothing
CloseHandlerNoTimer(rc) == rc

\* the timers the 'close' handler leaves pending: setTimeout(connectUpstream, 2000)
CloseHandlerTimers(rc) == Append(rc, RECONNECT_DELAY_MS)

\* mutant: the 'close' handler fails what is pending
AfterCloseDropsAll(m) == <<>>

\* the pending map after the 'close' handler: the handler does not touch it
AfterClose(m) == m

\* 'close': emitted once per socket, when it becomes CLOSED; the handler logs
\* proxy.disconnected and schedules connectUpstream
SockClose(i) ==
    /\ phase = "running"
    /\ socks[i] = "CLOSING"
    /\ socks' = [socks EXCEPT ![i] = "CLOSED"]
    /\ lastEvent' = "proxy.disconnected"
    /\ reconnect' = IF LogThrows THEN reconnect ELSE CloseHandlerTimers(reconnect)
    /\ phase' = AfterListener(phase)
    /\ pending' = AfterClose(pending)
    /\ UNCHANGED <<config, token>>
    /\ lastMsg' = NoMsg
    /\ UNCHANGED <<credVars, listen, storeVars, cliVars>>
    /\ calls' = Live

\* mutant: a timer that fired stays pending
RemoveAtKeeps(s, i) == s

\* the timers left when the i-th has fired (setTimeout timers fire once)
RemoveAt(s, i) == [j \in 1 .. (Len(s) - 1) |-> IF j < i THEN s[j] ELSE s[j + 1]]

\* the reconnect timer fires: connectUpstream()
ReconnectFire(i) ==
    /\ phase = "running"
    /\ i \in DOMAIN reconnect
    /\ reconnect[i] = 0
    /\ reconnect' = RemoveAt(reconnect, i)
    /\ socks' = ConnectUpstream(socks)
    /\ upstreamAuth' = tokenExpiresIn
    /\ UNCHANGED <<phase, config, token, pending, lastEvent>>
    /\ lastMsg' = NoMsg
    /\ UNCHANGED <<tokenExpiresIn, refreshTimers, refreshTimeout, refreshing, lastRefresh>>
    /\ UNCHANGED <<listen, storeVars, cliVars>>
    /\ calls' = Live

-----------------------------------------------------------------------------
(* The local message handler and forward() *)

\* the error object the handler sends to the local client
ErrorResponse(w, i, code, m) == [to |-> w, code |-> code, id |-> i, body |-> m]

\* JSON.stringify(response) of the upstream message
UpstreamResponse(w, msg) == [to |-> w, code |-> 0, id |-> msg.id, body |-> msg.body]

\* mutant: the parse error is reported with the internal-error code
ParseErrorAsInternal(w) == ErrorResponse(w, NoId, INTERNAL_ERROR_CODE, "Invalid JSON")

\* the response sent when JSON.parse(raw) throws
ParseErrorResponse(w) == ErrorResponse(w, NoId, PARSE_ERROR_CODE, "Invalid JSON")

\* mutant: forward checks only that this.upstream is not null
ForwardConnectedNullCheck(ss) == Len(ss) > 0

\* forward's connection check
ForwardConnected(ss) == Len(ss) > 0 /\ ss[Len(ss)] = "OPEN"

\* mutant: forward gives every request an identifier of its own
AssignIdAlwaysFresh(c, rid) == UuidOf(c)

\* const id = request.id ?? crypto.randomUUID()
AssignId(c, rid) == IF rid = NoId THEN UuidOf(c) ELSE rid

\* request.id = id; JSON.stringify(request): the parsed frame with its id set
\* (JSON.stringify of an array leaves out the id property put on it)
UpstreamRequest(k, id) ==
    IF k = "array" THEN [kind |-> k, id |-> NoId] ELSE [kind |-> k, id |-> id]

\* a frame that is not JSON: answered locally, forward is not called
FrameParseError(c, w) ==
    /\ calls' = [Live EXCEPT ![c] =
            [FreeCall EXCEPT !.st = "done", !.ws = w, !.kind = "text",
                             !.resp = <<ParseErrorResponse(w)>>,
                             !.audits = Audited(<<"proxy.error">>)]]
    /\ IF LogThrows THEN phase' \in {"running", "crashed"} ELSE UNCHANGED phase
    /\ UNCHANGED pending

\* what the catch block of the handler sends after forward rejected with "why":
\* it reads msg.id, which throws when msg is null
CatchResponses(w, k, i, why) ==
    IF k = "null" THEN <<>> ELSE <<ErrorResponse(w, i, INTERNAL_ERROR_CODE, why)>>

\* what the catch block of the handler logs
CatchAudits(k) == IF k = "null" THEN <<>> ELSE Audited(<<"error">>)

\* forward throws before registering anything ("why" is the error).  When the
\* catch block throws too (on msg.id, or in logEvent), the handler ends in an
\* unhandled rejection, which ends the process (Node.js 15 and later) or is
\* only reported (earlier).
FrameRejected(c, w, k, rid, why) ==
    /\ calls' = [Live EXCEPT ![c] =
            [FreeCall EXCEPT !.st = "done", !.ws = w, !.kind = k, !.rid = rid,
                             !.id = rid, !.settles = 1, !.outcome = why,
                             !.resp = CatchResponses(w, k, rid, why),
                             !.audits = CatchAudits(k)]]
    /\ IF k = "null" \/ LogThrows THEN phase' \in {"running", "crashed"}
       ELSE UNCHANGED phase
    /\ UNCHANGED pending

\* forward registers the callback and the timeout, then sends the request
FrameForwarded(c, w, k, rid) ==
    /\ calls' = [Live EXCEPT ![c] =
            [FreeCall EXCEPT !.st = "inflight", !.ws = w, !.kind = k, !.rid = rid,
                             !.id = AssignId(c, rid), !.timer = TIMEOUT_MS,
                             !.sent = 1,
                             !.up = UpstreamRequest(k, AssignId(c, rid))]]
    /\ pending' = MapSet(pending, AssignId(c, rid), c)
    /\ UNCHANGED phase

\* ws.on('message'): a frame arrives from local client w.  "g" says whether the
\* runtime has the global crypto object forward uses without importing it
\* (Node.js 19 and later have it; before, reading it is a ReferenceError).
LocalFrame(c, w, k, rid, g) ==
    /\ phase = "running"
    /\ Reusable(c)
    /\ \A d \in Slots : d < c => ~Reusable(d)
    /\ (k # "object") => (rid = NoId)
    /\ (~g) => (k \in {"prim", "array", "object"} /\ rid = NoId /\ ForwardConnected(socks))
    /\ IF k = "text" THEN FrameParseError(c, w)
       ELSE IF ~ForwardConnected(socks) THEN FrameRejected(c, w, k, rid, "not connected")
       ELSE IF k = "null" THEN FrameRejected(c, w, k, rid, "TypeError")
       ELSE IF rid = NoId /\ ~g THEN FrameRejected(c, w, k, rid, "ReferenceError")
       ELSE IF k = "prim" THEN FrameRejected(c, w, k, rid, "TypeError")
       ELSE FrameForwarded(c, w, k, rid)
    /\ UNCHANGED <<config, token, socks, reconnect, lastEvent>>
    /\ lastMsg' = NoMsg
    /\ UNCHANGED <<credVars, listen, storeVars, cliVars>>

\* what the handler sends after forward resolved: the response, and, when the
\* logEvent call that follows in the try block throws, the catch block's error
ResolvedResponses(call, msg) ==
    IF LogThrows
    THEN <<UpstreamResponse(call.ws, msg),
           ErrorResponse(call.ws, call.id, INTERNAL_ERROR_CODE, "SyntaxError")>>
    ELSE <<UpstreamResponse(call.ws, msg)>>

\* the callback stored by forward: clearTimeout(timeout); resolve(response).
\* When the promise settles here the handler continues: ws.send, logEvent.
ResolveCall(call, msg) ==
    IF call.st = "inflight"
    THEN [call EXCEPT !.st = "done", !.timer = NoTimer, !.settles = @ + 1,
                      !.outcome = "resolved", !.result = msg,
                      !.resp = @ \o ResolvedResponses(call, msg),
                      !.audits = @ \o Audited(<<IF msg.body = "error" THEN "error"
                                                 ELSE "success">>)]
    ELSE [call EXCEPT !.timer = NoTimer, !.settles = @ + 1]

\* the handler of the call continues in this step and its logEvent call throws:
\* the catch block's logEvent throws as well, an unhandled rejection
HandlerThrows(call) == call.st = "inflight" /\ LogThrows

\* the pending map after the upstream message handler found an entry for id
AfterResolve(m, id) == MapDelete(m, id)

\* identifiers the server can put in a message: none, any caller-chosen one,
\* or a generated one it was sent
ServerIds ==
    {NoId} \cup Ids \cup
    {calls[c].id : c \in {d \in Slots : calls[d].st = "inflight" /\ calls[d].kind = "object"}}

\* mutant: a message that matches nothing fails what is pending
MessageDroppedWithPending ==
    /\ calls' = Live
    /\ pending' = <<>>
    /\ UNCHANGED phase

\* the upstream message handler found no entry for msg.id: it does nothing
MessageDropped ==
    /\ calls' = Live
    /\ UNCHANGED <<pending, phase>>

\* upstream.on('message'): a message arrives on an open upstream socket
UpstreamMessage(id, body) ==
    /\ phase = "running"
    /\ \E i \in DOMAIN socks : socks[i] = "OPEN"
    /\ id \in ServerIds
    /\ IF id \in DOMAIN pending
       THEN /\ calls' = [Live EXCEPT ![pending[id]] =
                            ResolveCall(@, [id |-> id, body |-> body])]
            /\ pending' = AfterResolve(pending, id)
            /\ IF HandlerThrows(calls[pending[id]])
               THEN phase' \in {"running", "crashed"} ELSE UNCHANGED phase
       ELSE MessageDropped
    /\ UNCHANGED <<config, token, socks, reconnect, lastEvent>>
    /\ lastMsg' = [id |-> id, body |-> body]
    /\ UNCHANGED <<credVars, listen, storeVars, cliVars>>

\* the timeout callback of forward: reject(new Error('... timed out after 30s')).
\* When the promise settles here the handler's catch block runs: ws.send, logEvent.
RejectCall(call) ==
    IF call.st = "inflight"
    THEN [call EXCEPT !.st = "done", !.timer = NoTimer, !.settles = @ + 1,
                      !.outcome = "timeout",
                      !.resp = Append(@, ErrorResponse(call.ws, call.id,
                                                      INTERNAL_ERROR_CODE, "timed out")),
                      !.audits = @ \o Audited(<<"error">>)]
    ELSE [call EXCEPT !.timer = NoTimer, !.settles = @ + 1]

\* mutant: the timeout callback leaves the pending entry in place
AfterTimeoutKeepsEntry(m, id) == m

\* the pending map after the timeout callback of a call with identifier id
AfterTimeout(m, id) == MapDelete(m, id)

\* the 30 s timer of the call in slot c fires
Timeout(c) ==
    /\ phase = "running"
    /\ calls[c].timer = 0
    /\ pending' = AfterTimeout(pending, calls[c].id)
    /\ calls' = [Live EXCEPT ![c] = RejectCall(@)]
    /\ IF HandlerThrows(calls[c]) THEN phase' \in {"running", "crashed"} ELSE UNCHANGED phase
    /\ UNCHANGED <<config, token, socks, reconnect, lastEvent>>
    /\ lastMsg' = NoMsg
    /\ UNCHANGED <<credVars, listen, storeVars, cliVars>>

-----------------------------------------------------------------------------
(* Time *)

Timers ==
    {calls[c].timer : c \in {d \in Slots : calls[d].timer # NoTimer}}
        \cup Range(reconnect)

\* d milliseconds pass for the timers of forward and of the close handler
Advance(d) ==
    /\ calls' = [c \in Slots |->
                    IF Live[c].timer = NoTimer THEN Live[c]
                    ELSE [Live[c] EXCEPT !.timer = @ - d]]
    /\ reconnect' = [i \in DOMAIN reconnect |-> reconnect[i] - d]

\* time advances to the next deadline of the relay (the clock of the credential
\* is advanced by CredTick)
Tick ==
    /\ phase = "running"
    /\ Timers # {}
    /\ 0 \notin Timers
    /\ Advance(Min(Timers))
    /\ UNCHANGED <<phase, config, token, socks, pending, lastEvent>>
    /\ lastMsg' = NoMsg
    /\ UNCHANGED <<credVars, listen, storeVars, cliVars>>

-----------------------------------------------------------------------------
(* The credential: refreshToken() started by its timer *)

\* what the token endpoint can answer: the time left until expiresAt when the
\* answer is handled (below, at and above the refresh buffer)
IssuedTtls == {30000, 60000, 90000, DEFAULT_TTL_MS}

\* the refresh timer fires: refreshToken() runs up to await issueToken(...), or
\* throws on its config check.  Nothing awaits the promise a timer callback
\* returns, so a rejection is unhandled: it ends the process (Node.js 15 and
\* later) or is only reported (earlier).
RefreshFire(i) ==
    /\ phase = "running"
    /\ i \in DOMAIN refreshTimers
    /\ refreshTimers[i] = 0
    /\ refreshTimers' = RemoveAt(refreshTimers, i)
    /\ refreshTimeout' =
            IF i = Len(refreshTimers) /\ refreshTimeout = "pending" THEN "fired"
            ELSE refreshTimeout
    /\ IF Configured(config)
       THEN /\ refreshing' = refreshing + 1
            /\ UNCHANGED <<phase, lastRefresh>>
       ELSE /\ lastRefresh' = "failed"
            /\ phase' \in {"running", "crashed"}
            /\ UNCHANGED refreshing
    /\ UNCHANGED <<config, token, socks, reconnect, pending, lastEvent>>
    /\ lastMsg' = NoMsg
    /\ calls' = Live
    /\ UNCHANGED <<tokenExpiresIn, upstreamAuth, listen, storeVars, cliVars>>

\* issueToken resolved for a timer-started refreshToken(): token stored, next
\* refresh scheduled, proxy.token_refreshed logged; this.upstream is not touched
RefreshIssued(ttl) ==
    /\ phase = "running"
    /\ refreshing > 0
    /\ refreshing' = refreshing - 1
    /\ TokenStored(ttl)
    /\ lastEvent' = "proxy.token_refreshed"
    /\ IF LogThrows THEN phase' \in {"running", "crashed"} ELSE UNCHANGED phase
    /\ UNCHANGED <<config, socks, reconnect, pending>>
    /\ lastMsg' = NoMsg
    /\ calls' = Live
    /\ UNCHANGED <<upstreamAuth, listen, storeVars, cliVars>>

\* mutant: a refresh that failed forgets the token it had
RefreshFailedDropsToken ==
    /\ phase = "running"
    /\ refreshing > 0
    /\ refreshing' = refreshing - 1
    /\ lastRefresh' = "failed"
    /\ phase' \in {"running", "crashed"}
    /\ token' = "none"
    /\ tokenExpiresIn' = 0
    /\ UNCHANGED <<config, socks, reconnect, pending, lastEvent>>
    /\ lastMsg' = NoMsg
    /\ calls' = Live
    /\ UNCHANGED <<upstreamAuth, refreshTimers, refreshTimeout>>
    /\ UNCHANGED <<listen, storeVars, cliVars>>

\* issueToken rejected for a timer-started refreshToken(): the lines after the
\* await do not run (no token, no new timer); the rejection is unhandled
RefreshFailed ==
    /\ phase = "running"
    /\ refreshing > 0
    /\ refreshing' = refreshing - 1
    /\ lastRefresh' = "failed"
    /\ phase' \in {"running", "crashed"}
    /\ UNCHANGED <<config, token, socks, reconnect, pending, lastEvent>>
    /\ lastMsg' = NoMsg
    /\ calls' = Live
    /\ UNCHANGED <<tokenExpiresIn, upstreamAuth, refreshTimers, refreshTimeout>>
    /\ UNCHANGED <<listen, storeVars, cliVars>>

\* the instants at which something is due or a token expires
Deadlines ==
    Timers \cup Range(refreshTimers) \cup ({tokenExpiresIn, upstreamAuth} \ {0})

Expire(left, d) == IF left > d THEN left - d ELSE 0

\* time advances to the next deadline or expiry; due timers run first
CredTick ==
    /\ phase = "running"
    /\ Deadlines # {}
    /\ 0 \notin Deadlines
    /\ LET d == Min(Deadlines) IN
        /\ Advance(d)
        /\ refreshTimers' = [i \in DOMAIN refreshTimers |-> refreshTimers[i] - d]
        /\ tokenExpiresIn' = Expire(tokenExpiresIn, d)
        /\ upstreamAuth' = Expire(upstreamAuth, d)
    /\ UNCHANGED <<phase, config, token, socks, pending, lastEvent>>
    /\ lastMsg' = NoMsg
    /\ UNCHANGED <<refreshTimeout, refreshing, lastRefresh, listen, storeVars, cliVars>>

-----------------------------------------------------------------------------
Next ==
    \/ StartBegin
    \/ \E ttl \in {DEFAULT_TTL_MS} : StartIssued(ttl)
    \/ StartIssueFailed
    \/ \E i \in DOMAIN socks : SockOpen(i)
    \/ \E i \in DOMAIN socks : SockError(i)
    \/ \E i \in DOMAIN socks : SockPeerClose(i)
    \/ \E i \in DOMAIN socks : SockClose(i)
    \/ \E i \in DOMAIN reconnect : ReconnectFire(i)
    \/ \E c \in Slots, w \in Clients, k \in Kinds, rid \in {NoId} \cup Ids, g \in BOOLEAN :
            LocalFrame(c, w, k, rid, g)
    \/ \E id \in ServerIds, body \in Bodies : UpstreamMessage(id, body)
    \/ \E c \in Slots : Timeout(c)
    \/ Tick

Spec == Init /\ [][Next]_vars

(* The event loop runs every due timer callback and delivers every socket     *)
(* event; a socket that is closing does close.  SockOpens is fair in the     *)
(* strong sense: the remote endpoint accepts one of the attempts made while  *)
(* connections are attempted again and again.                                *)
TimeoutDue == \E c \in Slots : Timeout(c)
ReconnectDue == \E i \in DOMAIN reconnect : ReconnectFire(i)
SockCloses == \E i \in DOMAIN socks : SockClose(i)
SockOpens == \E i \in DOMAIN socks : SockOpen(i)

LiveSpec ==
    /\ Spec
    /\ WF_vars(Tick)
    /\ WF_vars(TimeoutDue)
    /\ WF_vars(ReconnectDue)
    /\ WF_vars(SockCloses)
    /\ SF_vars(SockOpens)

(* The relay while the config file is rewritten under it (by the setup script *)
(* or by hand), with the upstream connection staying up                      *)

\* the config file is replaced while the relay runs
ConfigRewritten(c) ==
    /\ phase = "running"
    /\ c # config
    /\ config' = c
    /\ cfgFile' = FileOf(c)
    /\ cfgRead' = NoRead
    /\ UNCHANGED <<phase, token, socks, reconnect, pending, lastEvent, cfgWritten>>
    /\ lastMsg' = NoMsg
    /\ calls' = Live
    /\ UNCHANGED <<credVars, listen, cliVars>>

AuditNext ==
    \/ StartBegin
    \/ \E ttl \in {DEFAULT_TTL_MS} : StartIssued(ttl)
    \/ StartIssueFailed
    \/ \E i \in DOMAIN socks : SockOpen(i)
    \/ \E c \in Slots, w \in Clients, k \in Kinds, rid \in {NoId} \cup Ids, g \in BOOLEAN :
            LocalFrame(c, w, k, rid, g)
    \/ \E id \in ServerIds, body \in Bodies : UpstreamMessage(id, body)
    \/ \E c \in Slots : Timeout(c)
    \/ Tick
    \/ \E c \in ConfigStates : ConfigRewritten(c)

AuditSpec == Init /\ [][AuditNext]_vars

(* The config store on its own (the setup script writes, everything reads) *)

\* writeConfig(doc): the whole file is replaced
WriteConfig(doc) ==
    /\ phase = "new"
    /\ cfgFile' = WriteConfigOf(doc)
    /\ cfgWritten' = doc
    /\ cfgRead' = NoRead
    /\ config' = Classify(doc)
    /\ UNCHANGED <<phase, token, socks, reconnect, pending, calls, lastEvent, lastMsg>>
    /\ UNCHANGED <<credVars, listen, cliVars>>

\* readConfig()
ReadConfig ==
    /\ phase = "new"
    /\ cfgRead' = ReadConfigOf(cfgFile)
    /\ UNCHANGED <<cfgFile, cfgWritten>>
    /\ UNCHANGED <<relayVars, credVars, listen, cliVars>>

StoreNext ==
    \/ \E doc \in Docs : WriteConfig(doc)
    \/ ReadConfig

ConfigSpec == Init /\ [][StoreNext]_vars

\* The relay over the lifetime of its credentials, with the upstream connection
\* staying up, one local client and well-formed requests.
CredNext ==
    \/ StartBegin
    \/ \E ttl \in IssuedTtls : StartIssued(ttl)
    \/ StartIssueFailed
    \/ \E i \in DOMAIN socks : SockOpen(i)
    \/ \E c \in Slots, rid \in {NoId} \cup Ids : LocalFrame(c, "ws1", "object", rid, TRUE)
    \/ \E id \in ServerIds, body \in Bodies : UpstreamMessage(id, body)
    \/ \E c \in Slots : Timeout(c)
    \/ \E i \in DOMAIN refreshTimers : RefreshFire(i)
    \/ \E ttl \in IssuedTtls : RefreshIssued(ttl)
    \/ RefreshFailed
    \/ CredTick

CredSpec == Init /\ [][CredNext]_vars

\* The credential on its own, over its lifetime, while the config file is
\* rewritten under the relay.
RenewNext ==
    \/ StartBegin
    \/ \E ttl \in IssuedTtls : StartIssued(ttl)
    \/ StartIssueFailed
    \/ \E i \in DOMAIN refreshTimers : RefreshFire(i)
    \/ \E ttl \in IssuedTtls : RefreshIssued(ttl)
    \/ RefreshFailed
    \/ CredTick
    \/ \E c \in ConfigStates : ConfigRewritten(c)

RenewSpec == Init /\ [][RenewNext]_vars

(* The command-line client, one invocation at a time.  An invocation loads *)
(* the config module, runs the preAction hook and then the action of its   *)
(* command; an action that calls the API suspends once, on the response.   *)

\* the process starts and the config module is loaded (env is the value of
\* EMOTOS_API_URL, cmd and opt the command and the --api-url option given)
CliLoad(env, cmd, opt) ==
    /\ cliProc.at = "none"
    /\ cliFile' = ConfLoad(cliFile, env)
    /\ cliProc' = [at |-> "loaded", cmd |-> cmd, env |-> env, opt |-> opt,
                   stored |-> GetApiUrl(cliFile'), outcome |-> "none"]
    /\ cliRemote' = 0
    /\ UNCHANGED cliUrl
    /\ UNCHANGED <<relayVars, credVars, listen, storeVars>>

\* the preAction hook: if (opts.apiUrl) setConfig("apiUrl", opts.apiUrl)
CliPreAction ==
    /\ cliProc.at = "loaded"
    /\ cliFile' = IF cliProc.opt # Unset THEN SetConfig(cliFile, "apiUrl", cliProc.opt)
                  ELSE cliFile
    /\ cliProc' = [cliProc EXCEPT !.at = "hooked"]
    /\ UNCHANGED <<cliUrl, cliRemote>>
    /\ UNCHANGED <<relayVars, credVars, listen, storeVars>>

\* api.request() up to its await of fetch, on a store st: without a credential
\* a call that requires one returns at once, otherwise the request is sent to
\* getApiUrl()
RequestSent(st, requireAuth) ==
    IF requireAuth /\ ~IsAuthenticated(st)
    THEN /\ cliProc' = Finished(cliProc)
         /\ UNCHANGED <<cliUrl, cliRemote>>
    ELSE /\ cliProc' = [cliProc EXCEPT !.at = "awaiting"]
         /\ cliUrl' = GetApiUrl(st)
         /\ cliRemote' = cliRemote + 1

\* a command that calls the API with the stored credential (agents list, ...)
CliRequest ==
    /\ cliProc.at = "hooked"
    /\ cliProc.cmd = "request"
    /\ RequestSent(cliFile, TRUE)
    /\ UNCHANGED cliFile
    /\ UNCHANGED <<relayVars, credVars, listen, storeVars>>

\* config set apiUrl <value>
CliConfigSet(value) ==
    /\ cliProc.at = "hooked"
    /\ cliProc.cmd = "configSet"
    /\ cliFile' = SetConfig(cliFile, "apiUrl", value)
    /\ cliProc' = Finished(cliProc)
    /\ UNCHANGED <<cliUrl, cliRemote>>
    /\ UNCHANGED <<relayVars, credVars, listen, storeVars>>

\* config reset --force
CliReset ==
    /\ cliProc.at = "hooked"
    /\ cliProc.cmd = "reset"
    /\ cliFile' = ClearConfig(cliProc.env)
    /\ cliProc' = Finished(cliProc)
    /\ UNCHANGED <<cliUrl, cliRemote>>
    /\ UNCHANGED <<relayVars, credVars, listen, storeVars>>

\* auth login --api-key: the key is stored, then verified with api.me();
\* auth login with e-mail and password: api.login(), which needs no credential
CliLogin ==
    /\ cliProc.at = "hooked"
    /\ cliProc.cmd \in {"loginKey", "loginPassword"}
    /\ cliFile' = IF cliProc.cmd = "loginKey" THEN SetConfig(cliFile, "apiKey", "key")
                  ELSE cliFile
    /\ RequestSent(cliFile', cliProc.cmd = "loginKey")
    /\ UNCHANGED <<relayVars, credVars, listen, storeVars>>

\* auth logout: if (!isAuthenticated()) return; await api.logout()
CliLogout ==
    /\ cliProc.at = "hooked"
    /\ cliProc.cmd = "logout"
    /\ IF ~IsAuthenticated(cliFile)
       THEN /\ cliProc' = Finished(cliProc)
            /\ UNCHANGED <<cliUrl, cliRemote>>
       ELSE RequestSent(cliFile, TRUE)
    /\ UNCHANGED cliFile
    /\ UNCHANGED <<relayVars, credVars, listen, storeVars>>

\* mutant: the credentials are cleared only when the remote logout succeeded
AfterLogoutIfOk(outcome, store, env) ==
    IF outcome = "ok" THEN ClearConfig(env) ELSE store

\* auth logout after await api.logout(), which never rejects: clearConfig()
AfterLogout(outcome, store, env) == ClearConfig(env)

\* auth login after the await: a rejected key clears the store, a session
\* token received is stored
AfterLogin(cmd, outcome, store, env) ==
    IF cmd = "loginKey"
    THEN IF outcome = "ok" THEN store ELSE ClearConfig(env)
    ELSE IF outcome = "ok" THEN SetConfig(store, "sessionToken", "session") ELSE store

\* the API answers the request (or the request fails) and the action finishes
CliResponse(outcome) ==
    /\ cliProc.at = "awaiting"
    /\ cliFile' = CASE cliProc.cmd = "logout" -> AfterLogout(outcome, cliFile, cliProc.env)
                    [] cliProc.cmd \in {"loginKey", "loginPassword"} ->
                            AfterLogin(cliProc.cmd, outcome, cliFile, cliProc.env)
                    [] OTHER -> cliFile
    /\ cliProc' = Finished([cliProc EXCEPT !.outcome = outcome])
    /\ UNCHANGED <<cliUrl, cliRemote>>
    /\ UNCHANGED <<relayVars, credVars, listen, storeVars>>

CliNext ==
    \/ \E env \in Urls \cup {Unset}, cmd \in Commands, opt \in Urls \cup {Unset} :
            CliLoad(env, cmd, opt)
    \/ CliPreAction
    \/ CliRequest
    \/ \E value \in Urls : CliConfigSet(value)
    \/ CliReset
    \/ CliLogin
    \/ CliLogout
    \/ \E outcome \in Outcomes : CliResponse(outcome)

CliSpec == Init /\ [][CliNext]_vars

TypeOK ==
    /\ phase \in {"new", "starting", "running", "exited", "crashed"}
    /\ \A i \in DOMAIN socks : socks[i] \in {"CONNECTING", "OPEN", "CLOSING", "CLOSED"}
    /\ \A c \in Slots : calls[c].st \in {"free", "inflight", "done"}

-----------------------------------------------------------------------------
(* Properties *)

\* the forward call of slot c has registered its callback and is not settled
InFlight(c) == calls[c].st = "inflight"

\* this step is the local message handler taking a new frame into slot c
Arrives(c) == Reusable(c) /\ calls'[c].st # "free"

\* this step is the upstream message handler, for a message carrying identifier i
MessageFor(i) == lastMsg' # NoMsg /\ lastMsg'.id = i

\* the call of slot c owns the pending entry of its identifier
OwnsEntry(c) == calls[c].id \in DOMAIN pending /\ pending[calls[c].id] = c

\* C1: a forward call in flight whose identifier an arriving upstream message
\* carries resolves with exactly that message, its timeout is cancelled, and
\* the pending map has no entry for the identifier afterwards.
C1_MatchingResponseResolves ==
    [][\A c \in Slots :
        (InFlight(c) /\ MessageFor(calls[c].id)) =>
            /\ calls'[c].outcome = "resolved"
            /\ calls'[c].result = lastMsg'
            /\ calls'[c].settles = 1
            /\ calls'[c].timer = NoTimer
            /\ calls[c].id \notin DOMAIN pending']_vars

\* C2: a frame handed to forward while the upstream is not OPEN is rejected at
\* once as not connected: no pending entry, no timer, no identifier assigned,
\* nothing sent upstream.
C2_NotConnectedRejectsAtOnce ==
    [][\A c \in Slots :
        (Arrives(c) /\ calls'[c].kind # "text" /\ ~UpstreamOpen) =>
            /\ calls'[c].st = "done"
            /\ calls'[c].outcome = "not connected"
            /\ calls'[c].settles = 1
            /\ calls'[c].timer = NoTimer
            /\ calls'[c].id = calls'[c].rid
            /\ calls'[c].sent = 0
            /\ pending' = pending
            /\ \A d \in Slots \ {c} : calls'[d] = Live[d]]_vars

\* C2 witness: a request was rejected as not connected while the upstream
\* socket was still connecting
C2_Witness ==
    \E c \in Slots :
        /\ calls[c].outcome = "not connected"
        /\ calls[c].kind = "object"
        /\ Len(socks) > 0 /\ socks[Len(socks)] = "CONNECTING"

\* C3: a forward call that gets no message within 30 s is rejected by its
\* timer with the timeout error, exactly once, and no pending entry is left
\* for its identifier; a message carrying that identifier afterwards does
\* nothing for the call.
C3_TimeoutRejectsOnce ==
    [][\A c \in Slots :
        /\ (InFlight(c) /\ calls[c].timer = 0 /\ calls'[c].timer # 0 /\ lastMsg' = NoMsg) =>
                /\ calls'[c].st = "done"
                /\ calls'[c].outcome = "timeout"
                /\ calls'[c].resp = <<ErrorResponse(calls[c].ws, calls[c].id,
                                                    INTERNAL_ERROR_CODE, "timed out")>>
                /\ calls[c].id \notin DOMAIN pending'
        /\ (InFlight(c) /\ calls'[c].outcome = "timeout") => calls[c].timer = 0
        /\ InFlight(c) => calls[c].timer \in 0 .. TIMEOUT_MS
        /\ calls'[c].outcome = "timeout" =>
                /\ calls'[c].settles = 1
                /\ Len(calls'[c].resp) = 1
                /\ calls'[c].timer = NoTimer
                /\ c \notin Range(pending')
        /\ (calls[c].outcome = "timeout" /\ MessageFor(calls[c].id)) =>
                calls'[c] = FreeCall]_vars

\* C3 witness: a call has just been rejected by its timeout
C3_Witness ==
    \E c \in Slots :
        /\ calls[c].outcome = "timeout"
        /\ calls[c].kind = "object"
        /\ calls[c].rid # NoId

\* C4: every call in flight owns the pending entry of its identifier, so no
\* two calls in flight share an identifier.
C4_IdentifierHasOneCall ==
    \A c \in Slots : InFlight(c) => OwnsEntry(c)

\* C5: concurrent calls are independent: no step takes the pending entry of a
\* call that stays in flight away from it.
C5_CallsIndependent ==
    [][\A c \in Slots :
        (InFlight(c) /\ OwnsEntry(c) /\ calls'[c].st = "inflight") =>
            /\ calls[c].id \in DOMAIN pending'
            /\ pending'[calls[c].id] = c]_vars

\* C6: every forward call the handler made and that has settled produced
\* exactly one audit record.
C6_OneAuditPerForward ==
    \A c \in Slots :
        (calls[c].st = "done" /\ calls[c].outcome # "none") => Len(calls[c].audits) = 1

\* C7: a frame that is not JSON never reaches forward: one -32600 response with
\* id null goes to the sender, one proxy.error event is logged, the relay keeps
\* running, the pending map and all other calls are untouched.
C7_ParseErrorIsLocal ==
    [][\A c \in Slots :
        (Arrives(c) /\ calls'[c].kind = "text") =>
            /\ calls'[c].st = "done"
            /\ calls'[c].outcome = "none"
            /\ calls'[c].settles = 0
            /\ calls'[c].sent = 0
            /\ calls'[c].timer = NoTimer
            /\ calls'[c].resp =
                    <<[to |-> calls'[c].ws, code |-> PARSE_ERROR_CODE,
                       id |-> NoId, body |-> "Invalid JSON"]>>
            /\ calls'[c].audits = <<"proxy.error">>
            /\ phase' = "running"
            /\ pending' = pending
            /\ socks' = socks
            /\ reconnect' = reconnect
            /\ \A d \in Slots \ {c} : calls'[d] = Live[d]]_vars

\* C7 witness: a parse error was answered while another request is in flight
C7_Witness ==
    \E c, d \in Slots :
        /\ calls[c].st = "done" /\ calls[c].kind = "text"
        /\ InFlight(d)

\* C8: every frame whose handler has finished was answered with exactly one
\* response.
C8_OneResponsePerFrame ==
    \A c \in Slots : calls[c].st = "done" => Len(calls[c].resp) = 1

LiveSocks == {i \in DOMAIN socks : socks[i] # "CLOSED"}

\* C10: once started, the non-closed upstream sockets and the pending
\* reconnect timers are exactly one in total, and only this.upstream can be
\* connecting or open.
C10_OneLiveUpstream ==
    phase \in {"running", "crashed"} =>
        /\ Cardinality(LiveSocks) + Len(reconnect) = 1
        /\ \A i \in LiveSocks : i = Len(socks)

\* C10 witness: the relay has reconnected after a close and the new socket is open
C10_Witness ==
    /\ phase = "running"
    /\ lastEvent = "proxy.connected"
    /\ \E c \in Slots : calls[c].st = "inflight" /\ calls[c].timer < TIMEOUT_MS
    /\ UpstreamOpen

-----------------------------------------------------------------------------
\* a request in flight that was sent on a connection since lost
StaleCall(c) == InFlight(c) /\ calls[c].stale

\* C11: after the upstream connection dropped with requests pending and a new
\* connection is open, a newly sent request is forwarded, and each stale
\* request to which no message is matched stays pending until its own 30 s
\* timer is due and is then rejected as a timeout, once, in a step that takes
\* nothing from the new requests in flight (they keep their pending entries,
\* so they can still succeed).
C11_StaleRequestsTimeOutAlone ==
    [][\A c \in Slots :
          /\ (StaleCall(c) /\ ~MessageFor(calls[c].id)) =>
                \/ calls'[c].st = "inflight"
                \/ /\ calls[c].timer = 0
                   /\ calls'[c].outcome = "timeout"
                   /\ calls'[c].settles = 1
                   /\ \A d \in Slots \ {c} :
                         (InFlight(d) /\ ~calls[d].stale /\ OwnsEntry(d)) =>
                            /\ calls'[d] = calls[d]
                            /\ calls[d].id \in DOMAIN pending'
                            /\ pending'[calls[d].id] = d
          /\ (Arrives(c) /\ UpstreamOpen /\ calls'[c].kind = "object"
                /\ calls'[c].rid # NoId /\ \E d \in Slots : StaleCall(d)) =>
                (calls'[c].st = "inflight" /\ calls'[c].sent = 1)
      ]_vars

-----------------------------------------------------------------------------
\* C12: when the config lacks agentId or orgApiKey, start() ends in the exit
\* with status 1 without a token request having been issued; when the token
\* request fails, it ends there as well; and when the process has exited this
\* way no upstream socket was ever created, no reconnect is scheduled and the
\* local server was never opened.
C12_NoCredentialNoStart ==
    [][/\ (phase = "new" /\ config # "ok") => phase' = "exited"
       /\ (phase = "starting" /\ token' = "none") => phase' = "exited"
       /\ (phase' = "exited" /\ phase \in {"new", "starting"}) =>
            /\ socks' = <<>>
            /\ reconnect' = <<>>
            /\ listen' = NotListening
            /\ refreshTimers' = <<>>
      ]_vars

C12_Witness ==
    /\ phase = "exited"
    /\ config = "noApiKey"
    /\ token = "none"
    /\ socks = <<>>
    /\ listen = NotListening

-----------------------------------------------------------------------------
\* this step is a refreshToken() call completing: it stores a timer handle
\* where there was none pending
RefreshSucceeds == refreshTimeout # "pending" /\ refreshTimeout' = "pending"

\* C13: the step that completes a refresh schedules the next one with delay
\* max(0, expiresAt - now - 60000): exactly the buffer before the expiry when
\* the token lives longer than the buffer, and 0, never a negative delay, when
\* it does not.
C13_RefreshDelayClamped ==
    [][RefreshSucceeds =>
          LET t == refreshTimers'[Len(refreshTimers')] IN
          /\ t >= 0
          /\ (tokenExpiresIn' > REFRESH_BUFFER_MS) =>
                (t = tokenExpiresIn' - REFRESH_BUFFER_MS /\ t < tokenExpiresIn')
          /\ (tokenExpiresIn' <= REFRESH_BUFFER_MS) => t = 0
      ]_vars

C13_Witness ==
    /\ lastEvent = "proxy.token_refreshed"
    /\ tokenExpiresIn = 30000
    /\ refreshTimers = <<0>>

\* C14: once a refresh has succeeded and while the process runs, exactly one
\* refresh is on its way at any time, whatever refreshes succeeded or failed
\* before: one timer is pending, or (between the timer firing and the answer
\* of the token endpoint) the one refresh it started is under way.
C14_ExactlyOneRefreshScheduled ==
    (phase = "running" /\ lastRefresh # "none") =>
        Len(refreshTimers) + refreshing = 1

\* C15: after a timer-started refresh failed the process still runs, no retry
\* is under way at once, and the next regular refresh is scheduled, so the
\* cycle goes on.
C15_CycleContinuesAfterFailure ==
    (lastRefresh = "failed") =>
        (phase = "running" /\ refreshing = 0 /\ Len(refreshTimers) >= 1)

\* C16: whenever forward sends a request upstream, the stored token has not
\* expired and the token with which the open upstream connection was
\* authenticated has not expired either.
C16_ForwardsWithLiveCredential ==
    [][\A c \in Slots :
          (Arrives(c) /\ calls'[c].sent = 1) => (tokenExpiresIn > 0 /\ upstreamAuth > 0)
      ]_vars

-----------------------------------------------------------------------------
\* C17: readConfig() called after writeConfig(cfg) returns a document deep-equal
\* to cfg, the one of the last write; and readConfig() called when no file
\* exists returns {} and does not throw.
C17_ConfigRoundTrip ==
    /\ (cfgRead # NoRead /\ cfgWritten # NoDoc) => DeepEqual(cfgRead, cfgWritten)
    /\ (cfgRead # NoRead /\ cfgFile = NoFile) => cfgRead = JObj(<<>>)

C17_Witness ==
    /\ cfgWritten = JObj(<<Member(OddKey,
                              JObj(<<Member(OddKey, JArr(<<JStr(<<Backslash, "n">>)>>))>>))>>)
    /\ cfgRead = cfgWritten

-----------------------------------------------------------------------------
-----------------------------------------------------------------------------
\* this step ends the handling of the frame in slot c (at once, or when its
\* forward call settles)
Answers(c) == calls[c].st # "done" /\ calls'[c].st = "done"

\* C19: whatever happens to the audit event (logEvent posts it, returns
\* without posting, or throws while reading the config), the step that ends
\* the handling of a frame the handler can answer sends the caller one
\* response, not two and not none, and leaves the relay running.
C19_AuditNeverAffectsForwarding ==
    [][\A c \in Slots :
          (Answers(c) /\ calls'[c].kind # "null") =>
              (Len(calls'[c].resp) = 1 /\ phase' = "running")
      ]_vars

-----------------------------------------------------------------------------
\* C20: once the local server listens, it is bound to the loopback address
\* 127.0.0.1 and to port 8765, so that only clients on the same machine can
\* connect.
C20_ListensOnLoopback ==
    (listen # NotListening) => (listen.host = "127.0.0.1" /\ listen.port = 8765)

\* C21: when EMOTOS_API_URL is set (and no --api-url option is given), the
\* endpoint that getApiUrl() returns to the command is the value of the
\* variable, whatever apiUrl the config file stores.
C21_EnvironmentWins ==
    (cliProc.at = "hooked" /\ cliProc.env # Unset /\ cliProc.opt = Unset) =>
        GetApiUrl(cliFile) = cliProc.env

\* C22: when a command run with --api-url that itself writes nothing to the
\* store finishes, the stored apiUrl is the one that was stored before the
\* option was applied.
C22_ApiUrlOptionNotStored ==
    [][(cliProc.cmd = "request" /\ cliProc.opt # Unset
            /\ cliProc.at # "none" /\ cliProc'.at = "none") =>
        cliFile'.apiUrl = cliProc.stored]_vars

\* C23: auth logout run while a credential is stored calls the API and, when
\* it finishes, no credential is stored (isAuthenticated() is false and
\* getAuthHeader() is empty) whatever the outcome of the call; run without a
\* credential it finishes at once, calls nothing and leaves the store as it is.
C23_LogoutClearsCredentials ==
    [][(cliProc.cmd = "logout" /\ cliProc.at \in {"hooked", "awaiting"}) =>
        /\ (cliProc.at = "hooked" /\ IsAuthenticated(cliFile)) =>
                /\ cliProc'.at = "awaiting"
                /\ cliRemote' = cliRemote + 1
        /\ (cliProc.at = "hooked" /\ ~IsAuthenticated(cliFile)) =>
                /\ cliProc'.at = "none"
                /\ cliRemote' = cliRemote
                /\ cliFile' = cliFile
        /\ cliProc'.at = "none" =>
                /\ ~IsAuthenticated(cliFile')
                /\ GetAuthHeader(cliFile') = <<>>]_vars

\* a logout that was run with a credential stored has finished although the
\* request to the API failed
C23_Witness_LogoutAfterFailedCall ==
    /\ cliProc.cmd = "logout"
    /\ cliProc.at = "none"
    /\ cliProc.outcome = "networkError"
    /\ cliRemote = 1
    /\ ~IsAuthenticated(cliFile)

-----------------------------------------------------------------------------
\* this step is part of a timer-started refreshToken() call: the timer fires
\* and issueToken is called, or issueToken answers or fails
RefreshStep == phase = "running" /\ refreshing' # refreshing

\* C24: a refresh, successful or failed, leaves the upstream connection (the
\* socket and its state), the pending map and every request in flight as they
\* were, in a process that goes on running, so that the requests in flight
\* across the refresh can still be resolved by their responses.
C24_RefreshLeavesForwardingAlone ==
    [][RefreshStep =>
          /\ socks' = socks
          /\ pending' = pending
          /\ \A c \in Slots : InFlight(c) => calls'[c] = calls[c]
          /\ phase' = "running"
      ]_vars

-----------------------------------------------------------------------------
\* this step is the 'close' event of an upstream socket
Closes ==
    \E i \in DOMAIN socks :
        socks[i] = "CLOSING" /\ i \in DOMAIN socks' /\ socks'[i] = "CLOSED"

-----------------------------------------------------------------------------
\* C26: the step in which forward sends a request is the step of its
\* connection check and of its registrations: the upstream was OPEN when the
\* step began and is the same socket, still OPEN, when it ends, and when it
\* ends (the first state in which a response can arrive) the pending entry of
\* the request and its 30 s timer are in place.
C26_RegisteredBeforeSent ==
    [][\A c \in Slots :
          (Arrives(c) /\ calls'[c].sent = 1) =>
              /\ UpstreamOpen
              /\ socks' = socks
              /\ calls'[c].st = "inflight"
              /\ calls'[c].timer = TIMEOUT_MS
              /\ calls'[c].id \in DOMAIN pending'
              /\ pending'[calls'[c].id] = c
      ]_vars

\* a request without an identifier of its own has just been sent
C26_Witness_JustSent ==
    \E c \in Slots :
        /\ calls[c].sent = 1
        /\ calls[c].rid = NoId
        /\ calls[c].timer = TIMEOUT_MS
        /\ OwnsEntry(c)
        /\ UpstreamOpen

-----------------------------------------------------------------------------
\* the handler of slot c called forward and forward passed its connection check
PassedCheck(c) ==
    calls[c].st # "free" /\ calls[c].kind # "text" /\ calls[c].outcome # "not connected"

\* C27: a forward call that passed the connection check is, until it settles,
\* within its 30 s and unsettled; it settles once, resolved with an upstream
\* message or rejected as a timeout, nothing else; every entry of the pending
\* map belongs to a call in flight; and every call in flight settles (as long
\* as the process lives), so the entries do not stay.
C27_SettlesOnceWithinDeadline ==
    /\ [](\A c \in Slots :
            PassedCheck(c) =>
                /\ calls[c].st = "inflight" =>
                        (calls[c].timer \in 0 .. TIMEOUT_MS /\ calls[c].settles = 0)
                /\ calls[c].st = "done" =>
                        (calls[c].outcome \in {"resolved", "timeout"} /\ calls[c].settles = 1))
    /\ [](\A id \in DOMAIN pending : InFlight(pending[id]))
    /\ \A c \in Slots : InFlight(c) ~> (~InFlight(c) \/ phase = "crashed")

-----------------------------------------------------------------------------
\* this step is a timer-started refreshToken() call failing: issueToken
\* rejects, or the timer fires and the call throws on the config it reads
RefreshFails ==
    /\ phase = "running"
    /\ \/ refreshing' = refreshing - 1 /\ lastRefresh' = "failed"
       \/ Len(refreshTimers') < Len(refreshTimers) /\ refreshing' = refreshing

\* C28: a refresh that fails (on the config or on the issuance) leaves the
\* token and its expiry as they were and sets no timer: the handle is the one
\* it was, of a timer that is pending no more if it is the one that fired.
\* The token and the expiry change only in a step that completes a refresh,
\* both in that step; in any other step the token stays and the expiry only
\* comes nearer as time passes.
C28_FailedRefreshChangesNothing ==
    [][/\ RefreshFails =>
            /\ token' = token
            /\ tokenExpiresIn' = tokenExpiresIn
            /\ \/ refreshTimeout' = refreshTimeout
               \/ refreshTimeout = "pending" /\ refreshTimeout' = "fired"
            /\ Len(refreshTimers') <= Len(refreshTimers)
       /\ RefreshSucceeds =>
            /\ token' = "issued"
            /\ tokenExpiresIn' \in IssuedTtls
            /\ lastRefresh' = "ok"
       /\ ~RefreshSucceeds =>
            /\ token' = token
            /\ \/ tokenExpiresIn' = tokenExpiresIn
               \/ /\ Deadlines # {}
                  /\ tokenExpiresIn' = Expire(tokenExpiresIn, Min(Deadlines))
                  /\ refreshing' = refreshing
      ]_vars

\* a refresh has failed on the config, with the token of the start in place
\* and its expiry one refresh buffer away
C28_Witness_FailedOnConfig ==
    /\ lastRefresh = "failed"
    /\ config = "noApiKey"
    /\ refreshing = 0
    /\ token = "issued"
    /\ tokenExpiresIn = REFRESH_BUFFER_MS
    /\ refreshTimeout = "fired"

-----------------------------------------------------------------------------
\* refreshToken() calls that have not returned: the one start() awaits, and
\* those started by the timer
RefreshCalls == refreshing + (IF phase = "starting" THEN 1 ELSE 0)

\* C29: at every moment the refreshToken() calls in flight and the pending
\* refresh timers are at most one in total.
C29_OneRefreshAtATime == RefreshCalls + Len(refreshTimers) <= 1

\* the second timer-started refresh is under way and no timer is pending
C29_Witness_RefreshUnderWay ==
    /\ lastEvent = "proxy.token_refreshed"
    /\ refreshing = 1
    /\ refreshTimers = <<>>
    /\ refreshTimeout = "fired"

-----------------------------------------------------------------------------
\* C30: the handling of an upstream message whose identifier has no entry in
\* the pending map (a late or repeated response, or a message without an
\* identifier) leaves the pending map and every call as they are: nothing is
\* sent to a local client, nothing is settled, no timer is touched, and the
\* relay keeps running.
C30_UnmatchedMessageDropped ==
    [][(lastMsg' # NoMsg /\ lastMsg'.id \notin DOMAIN pending) =>
          /\ pending' = pending
          /\ calls' = Live
          /\ phase' = phase
      ]_vars

\* a message carrying an identifier a caller could have chosen has been
\* handled while another request is in flight, and nothing was resolved
C30_Witness_DroppedWhilePending ==
    /\ lastMsg # NoMsg
    /\ lastMsg.id \in Ids
    /\ lastMsg.id \notin DOMAIN pending
    /\ \A c \in Slots : calls[c].st # "done"
    /\ \E c \in Slots : InFlight(c) /\ OwnsEntry(c)

====
